---- MODULE Spec2Model ----
(***************************************************************************)
(* Emotion blending and modulation pipeline of the emotion engine          *)
(* (packages/emotion-engine/app/emotion_blend.py and app/inference.py).    *)
(*                                                                         *)
(* Python floats are modelled in fixed point: a probability p is the       *)
(* integer p * Unit (Unit = 10^7, finer than the 1e-6 tolerance the        *)
(* specification speaks of).  Raw scores, sharpness and retention are in   *)
(* tenths.  Values returned by round(x, n) are integers in units of 10^-n. *)
(* round() of a float that is a decimal tie in exact arithmetic goes up or *)
(* down with the float's binary expansion: each call of round() takes the  *)
(* direction as an input, and the callers draw it from BOOLEAN.            *)
(***************************************************************************)
EXTENDS Integers, Sequences, FiniteSets, TLC

VARIABLES
    fn, args, ret,          \* the last call of a function of the engine, and its result
    heap, calls,            \* caller-held distributions, and concurrent pipeline calls
    session,                \* a caller that feeds each blend to the next pipeline call
    fs, handler, batch      \* temporary files, and the request handlers writing them

vars == <<fn, args, ret, heap, calls, session, fs, handler, batch>>
engineVars == <<fn, args, ret>>
concVars == <<heap, calls>>
serverVars == <<fs, handler, batch>>

----------------------------------------------------------------------------
(* Numeric representation *)

Unit == 10 ^ 7
Milli == Unit \div 1000
Centi == Unit \div 100

\* A float that is not a number (numpy's nan); every comparison with it is false.
NaN == 0 - 2 ^ 30

\* Number of steps of the grid of caller-supplied distributions.
GridSteps == 10

Abs(x) == IF x < 0 THEN 0 - x ELSE x

\* round(n / d) for d > 0, to the nearest integer; a tie goes up iff `up`.
RoundDiv(n, d, up) ==
    LET q == n \div d
        r == n % d
    IN  IF 2 * r < d THEN q
        ELSE IF 2 * r > d THEN q + 1
        ELSE IF up THEN q + 1 ELSE q

\* n / d is a tie
IsTie(n, d) == 2 * (n % d) = d

\* The tie directions of n calls of round()
Ties(n) == [1..n -> BOOLEAN]

\* floor(r * 10^k / s) for r >= 0, s > 0, by long division (no wide product).
RECURSIVE FracDigits(_, _, _)
FracDigits(r, s, k) ==
    IF k = 0 THEN r \div s
    ELSE (r \div s) * 10 ^ k + FracDigits((r % s) * 10, s, k - 1)

\* np.clip(v, lo, hi) on one element
Clip(v, lo, hi) == IF v < lo THEN lo ELSE IF v > hi THEN hi ELSE v

Max3(x) ==
    LET m == IF x[1] >= x[2] THEN x[1] ELSE x[2]
    IN  IF m >= x[3] THEN m ELSE x[3]

----------------------------------------------------------------------------
(* emotion_blend.py *)

EMOTION_LABELS == <<"calm", "guarded", "lit">>

\* np.exp(-a / 70) * 10^6 for the arguments a (in 1/70) the model reaches.
ExpNeg(a) ==
    (0 :> 1000000 @@ 35 :> 606531 @@ 50 :> 489542 @@ 70 :> 367879
       @@ 100 :> 239651 @@ 105 :> 223130 @@ 140 :> 135335 @@ 150 :> 117319
       @@ 175 :> 82085 @@ 200 :> 57433 @@ 210 :> 49787 @@ 250 :> 28116
       @@ 280 :> 18316 @@ 350 :> 6738)[a]

\* e_x / e_x.sum(axis=0): one element e of e_x over the sum of the three.
softmax_mut_nosum(e, e_x) == FracDigits(e, e_x[1] + e_x[2], 7)
softmax_div(e, e_x) == FracDigits(e, e_x[1] + e_x[2] + e_x[3], 7)

\* softmax(x): x is a sequence of three numbers in units of 1/70.
softmax(x) ==
    LET m == Max3(x)
        e_x == [i \in 1..3 |-> ExpNeg(m - x[i])]
    IN  [i \in 1..3 |-> softmax_div(e_x[i], e_x)]

\* dict(zip(EMOTION_LABELS, probs))
ZipLabels(p) == [calm |-> p[1], guarded |-> p[2], lit |-> p[3]]

\* blend_emotions(logits, alpha): logits and alpha in tenths.
\* alpha = 0: numpy divides by zero without raising (inf or nan elements),
\* x - max(x) is then nan in some element, e_x.sum() is nan, every
\* probability is nan, and np.clip leaves nan alone.
blend_emotions(logits, alpha) ==
    IF alpha = 0
    THEN ZipLabels(<<NaN, NaN, NaN>>)
    ELSE LET x == [i \in 1..3 |-> (logits[i] * 70) \div alpha]
             probs == softmax(x)
         IN  ZipLabels([i \in 1..3 |-> Clip(probs[i], 0, Unit)])

----------------------------------------------------------------------------
(* inference.py *)

\* calm, guarded, lit = emotion_vector
Unpacks(emotion_vector) == Len(emotion_vector) = 3

detect_mut_order(emotion_vector) ==
    LET calm == emotion_vector[1]
        guarded == emotion_vector[2]
        lit == emotion_vector[3]
        threshold == (3 * Unit) \div 10
    IN  IF guarded > threshold /\ lit > threshold THEN "guarded optimism"
        ELSE IF calm > threshold /\ lit > threshold THEN "hopeful calm"
        ELSE IF calm > threshold /\ guarded > threshold THEN "resolute peace"
        ELSE IF calm > (6 * Unit) \div 10 THEN "pure calm"
        ELSE IF guarded > (6 * Unit) \div 10 THEN "pure guarded"
        ELSE IF lit > (6 * Unit) \div 10 THEN "pure lit"
        ELSE "neutral blend"

detect_mut_threshold(emotion_vector) ==
    LET calm == emotion_vector[1]
        guarded == emotion_vector[2]
        lit == emotion_vector[3]
        threshold == (35 * Unit) \div 100
    IN  IF calm > threshold /\ lit > threshold THEN "hopeful calm"
        ELSE IF guarded > threshold /\ lit > threshold THEN "guarded optimism"
        ELSE IF calm > threshold /\ guarded > threshold THEN "resolute peace"
        ELSE IF calm > (6 * Unit) \div 10 THEN "pure calm"
        ELSE IF guarded > (6 * Unit) \div 10 THEN "pure guarded"
        ELSE IF lit > (6 * Unit) \div 10 THEN "pure lit"
        ELSE "neutral blend"

\* _detect_emotion_blend(emotion_vector)
detect_emotion_blend(emotion_vector) ==
    LET calm == emotion_vector[1]
        guarded == emotion_vector[2]
        lit == emotion_vector[3]
        threshold == (3 * Unit) \div 10
    IN  IF calm > threshold /\ lit > threshold THEN "hopeful calm"
        ELSE IF guarded > threshold /\ lit > threshold THEN "guarded optimism"
        ELSE IF calm > threshold /\ guarded > threshold THEN "resolute peace"
        ELSE IF calm > (6 * Unit) \div 10 THEN "pure calm"
        ELSE IF guarded > (6 * Unit) \div 10 THEN "pure guarded"
        ELSE IF lit > (6 * Unit) \div 10 THEN "pure lit"
        ELSE "neutral blend"

----------------------------------------------------------------------------
(* Inputs *)

\* Raw scores (tenths): 0.0, 0.5 and 2.0, the values of the documented scenarios.
RawScores == {0, 5, 20}
Logits == {<<a, b, c>> : a \in RawScores, b \in RawScores, c \in RawScores}

\* Sharpness values (tenths): the default 0.7, two other positive ones, 0 and a negative one.
DefaultAlpha == 7
Alphas == {-7, 0, 5, 7, 10}

\* Caller-supplied distributions: every (i, j, k) / GridSteps with i + j + k = GridSteps.
GridPoint(k) == (k * Unit) \div GridSteps
GridDists ==
    {[calm |-> GridPoint(i), guarded |-> GridPoint(j), lit |-> GridPoint(GridSteps - i - j)] :
        <<i, j>> \in {p \in (0..GridSteps) \X (0..GridSteps) : p[1] + p[2] <= GridSteps}}

\* Distributions the normalizer produces.
NormDists == {blend_emotions(l, a) : l \in Logits, a \in {x \in Alphas : x > 0}}

Dists == GridDists \cup NormDists

\* list(blend.values()) in label order
Vec(blend) == <<blend.calm, blend.guarded, blend.lit>>

\* The vector of the documented scenario {calm: 0.35, guarded: 0.1, lit: 0.4}.
ScenarioVector == <<35 * Centi, 10 * Centi, 40 * Centi>>

Vectors == {Vec(d) : d \in Dists} \cup {ScenarioVector}

----------------------------------------------------------------------------
(* emotion_blend.py, continued *)

\* "sine" if calm > 0.6 else "ease-in" if guarded > 0.5 else "cubic"
easing_curve(calm, guarded) ==
    IF calm > 6 * (Unit \div 10) THEN "sine"
    ELSE IF guarded > 5 * (Unit \div 10) THEN "ease-in"
    ELSE "cubic"

tts_pitch_shift_mut_sign(calm, guarded, lit, up) ==
    RoundDiv(8 * (calm - lit), 100 * Milli, up)

\* round((lit - calm) * 0.08, 3), in thousandths
tts_pitch_shift(calm, guarded, lit, up) == RoundDiv(8 * (lit - calm), 100 * Milli, up)

glow_intensity_mut_swapped(calm, guarded, lit, up) ==
    RoundDiv(90 * calm + 25 * guarded + 40 * lit, Unit, up)

glow_intensity_mut_base(calm, guarded, lit, up) ==
    RoundDiv(40 * Unit + 25 * guarded + 90 * lit, Unit, up)

\* round(0.4 * calm + 0.25 * guarded + 0.9 * lit, 2), in hundredths
glow_intensity(calm, guarded, lit, up) ==
    RoundDiv(40 * calm + 25 * guarded + 90 * lit, Unit, up)

\* compute_modulation(blend), for a blend that has the three keys
compute_modulation(blend, ties) ==
    LET calm == blend.calm
        guarded == blend.guarded
        lit == blend.lit
    IN  [tts_pitch_shift |-> tts_pitch_shift(calm, guarded, lit, ties[1]),
         tts_speed_scale |->
             RoundDiv(90 * Unit + 20 * lit - 5 * guarded, 100 * Milli, ties[2]),
         glow_intensity |-> glow_intensity(calm, guarded, lit, ties[3]),
         glow_hue |-> RoundDiv(12 * (lit + 2 * guarded), Unit \div 100, ties[4]),
         glow_easing_curve |-> easing_curve(calm, guarded)]

\* round((1 - smoothing) * new_blend[key] + smoothing * prev_blend[key], 3), in Units
smooth_key_mut_swapped(prev, new, smoothing, up) ==
    RoundDiv(smoothing * new + (10 - smoothing) * prev, 10 * Milli, up) * Milli

smooth_key_mut_round2(prev, new, smoothing, up) ==
    RoundDiv((10 - smoothing) * new + smoothing * prev, 100 * Milli, up) * 10 * Milli

smooth_key(prev, new, smoothing, up) ==
    RoundDiv((10 - smoothing) * new + smoothing * prev, 10 * Milli, up) * Milli

\* The tie directions that matter to smooth_blend: a direction is drawn only
\* for a key whose value is a tie.
SmoothTies(prev_blend, new_blend, smoothing, n) ==
    {t \in Ties(n) :
        /\ t[1] => IsTie((10 - smoothing) * new_blend.calm + smoothing * prev_blend.calm,
                          10 * Milli)
        /\ t[2] => IsTie((10 - smoothing) * new_blend.guarded
                            + smoothing * prev_blend.guarded, 10 * Milli)
        /\ t[3] => IsTie((10 - smoothing) * new_blend.lit + smoothing * prev_blend.lit,
                          10 * Milli)}

\* smooth_blend(prev_blend, new_blend, smoothing): smoothing in tenths
smooth_blend(prev_blend, new_blend, smoothing, ties) ==
    [calm |-> smooth_key(prev_blend.calm, new_blend.calm, smoothing, ties[1]),
     guarded |-> smooth_key(prev_blend.guarded, new_blend.guarded, smoothing, ties[2]),
     lit |-> smooth_key(prev_blend.lit, new_blend.lit, smoothing, ties[3])]

DefaultSmoothing == 3

process_mut_nosmooth(logits, prev_blend, ties) ==
    LET new_blend == blend_emotions(logits, DefaultAlpha)
    IN  [blend_vector |-> new_blend,
         modulation |-> compute_modulation(new_blend, [i \in 1..4 |-> ties[i + 3]])]

\* process_emotion_logits(logits, prev_blend): prev_blend is <<>> (None) or <<blend>>;
\* ties[1..3] are those of smooth_blend, ties[4..7] those of compute_modulation.
process_emotion_logits(logits, prev_blend, ties) ==
    LET new_blend == blend_emotions(logits, DefaultAlpha)
        final_blend == IF prev_blend # <<>>
                       THEN smooth_blend(prev_blend[1], new_blend, DefaultSmoothing, ties)
                       ELSE new_blend
    IN  [blend_vector |-> final_blend,
         modulation |-> compute_modulation(final_blend, [i \in 1..4 |-> ties[i + 3]])]

----------------------------------------------------------------------------
(* inference.py, continued *)

EMOTIONS == <<"calm", "guarded", "lit">>

\* int(np.argmax(probs)): the first index of the maximum
ArgMax(probs) ==
    CHOOSE i \in 1..3 :
        /\ \A j \in 1..3 : probs[j] <= probs[i]
        /\ \A j \in 1..(i - 1) : probs[j] < probs[i]

\* _generate_modulation(probs, emotion)
generate_modulation(probs, emotion, ties) ==
    [tts_pitch_shift |-> RoundDiv(8 * (probs[3] - probs[1]), 100 * Milli, ties[1]),
     tts_speed_scale |-> RoundDiv(90 * Unit + 20 * probs[3], 100 * Milli, ties[2]),
     glow_intensity |-> RoundDiv(Max3(probs), Centi, ties[3]),
     glow_easing_curve |-> IF emotion = "calm" THEN "sine"
                           ELSE IF emotion = "guarded" THEN "ease-in" ELSE "cubic"]

HexDigits == <<"0", "1", "2", "3", "4", "5", "6", "7", "8", "9", "a", "b", "c", "d", "e", "f">>

\* one channel of np.clip(calm * amber + guarded * blue + lit * green, 0, 255).astype(int);
\* the product is split at 10^4 to stay within the integers of the checker.
Channel(v, w) ==
    LET H == w[1] * (v[1] \div 10000) + w[2] * (v[2] \div 10000) + w[3] * (v[3] \div 10000)
        L == w[1] * (v[1] % 10000) + w[2] * (v[2] % 10000) + w[3] * (v[3] % 10000)
    IN  Clip((H + (L \div 10000)) \div 1000, 0, 255)

\* f"{c:02x}"
Hex2(c) == <<HexDigits[(c \div 16) + 1], HexDigits[(c % 16) + 1]>>

\* _interpolate_color(emotion_vector): amber, blue and green anchors, by channel
interpolate_color(emotion_vector) ==
    <<"#">> \o Hex2(Channel(emotion_vector, <<245, 74, 126>>))
            \o Hex2(Channel(emotion_vector, <<158, 144, 211>>))
            \o Hex2(Channel(emotion_vector, <<66, 226, 33>>))

\* if calm > 0.5 ... elif guarded > 0.5 ... else "cubic"
blended_easing_curve(calm, guarded) ==
    IF calm > 5 * (Unit \div 10) THEN "sine"
    ELSE IF guarded > 5 * (Unit \div 10) THEN "ease-in"
    ELSE "cubic"

\* round((lit * 0.08) - (calm * 0.02) + (guarded * 0.03), 3), in thousandths
blended_pitch_shift(calm, guarded, lit, up) ==
    RoundDiv(8 * lit - 2 * calm + 3 * guarded, 100 * Milli, up)

\* _generate_blended_modulation(emotion_vector), for a vector of three
generate_blended_modulation(emotion_vector, ties) ==
    LET calm == emotion_vector[1]
        guarded == emotion_vector[2]
        lit == emotion_vector[3]
    IN  [tts_pitch_shift |-> blended_pitch_shift(calm, guarded, lit, ties[1]),
         tts_speed_scale |->
             RoundDiv(90 * Unit + 25 * lit - 5 * guarded, 100 * Milli, ties[2]),
         glow_intensity |-> glow_intensity(calm, guarded, lit, ties[3]),
         glow_easing_curve |-> blended_easing_curve(calm, guarded),
         glow_color |-> interpolate_color(emotion_vector)]

----------------------------------------------------------------------------
(* Inputs, continued *)

\* Retention values (tenths): the default 0.3, the ends 0 and 1, and two outside [0, 1].
Smoothings == {-5, 0, 3, 10, 15}

\* Previous distributions a caller holds: grid points and outputs of the normalizer.
PrevDists == GridDists \cup {blend_emotions(l, DefaultAlpha) : l \in Logits}

\* Malformed blends: out-of-range and negative values, a missing key, an extra key.
MalformedBlends ==
    {[calm |-> 15 * (Unit \div 10), guarded |-> 0 - 5 * (Unit \div 10), lit |-> 0],
     [calm |-> 0, guarded |-> 0 - 2 * (Unit \div 10), lit |-> 12 * (Unit \div 10)],
     [calm |-> 5 * (Unit \div 10), guarded |-> 5 * (Unit \div 10)],
     [calm |-> 5 * (Unit \div 10), guarded |-> 5 * (Unit \div 10), lit |-> 0, joy |-> 0]}

\* Malformed vectors: out-of-range and negative values, two elements, four elements.
MalformedVectors ==
    {<<15 * (Unit \div 10), 0 - 5 * (Unit \div 10), 0>>,
     <<0, 0 - 2 * (Unit \div 10), 12 * (Unit \div 10)>>,
     <<5 * (Unit \div 10), 5 * (Unit \div 10)>>,
     <<5 * (Unit \div 10), 5 * (Unit \div 10), 0, 0>>}

\* Smoothed distributions whose rounded values do not sum to 1: 0.999, 1.001,
\* 1.002 and 0.998.
OffSumDists ==
    {[calm |-> 333 * Milli, guarded |-> 333 * Milli, lit |-> 333 * Milli],
     [calm |-> 334 * Milli, guarded |-> 334 * Milli, lit |-> 333 * Milli],
     [calm |-> 0, guarded |-> 2 * Milli, lit |-> 1000 * Milli],
     [calm |-> 1 * Milli, guarded |-> 1000 * Milli, lit |-> 1 * Milli],
     [calm |-> 0, guarded |-> 998 * Milli, lit |-> 0]}

\* Distributions handed to the modulation mappers.
MapperDists == Dists \cup OffSumDists

\* blend["calm"], blend["guarded"], blend["lit"] all exist
HasKeys(blend) == {"calm", "guarded", "lit"} \subseteq DOMAIN blend

----------------------------------------------------------------------------
(* Calls: the caller makes one call at a time and takes its result. *)

Returned(v) == [raised |-> "none", value |-> v]
Raised(e) == [raised |-> e, value |-> <<>>]

\* No call of the engine is in progress.
EngineIdle ==
    /\ fn = "none"
    /\ args = <<>>
    /\ ret = Returned(<<>>)

\* A request handler that is not running: n counts the requests received,
\* tmp_path is the handler's variable (0: None or unbound), file the temporary
\* file it created (0: none), exit and response what it is about to return or raise.
IdleHandler ==
    [pc |-> "idle", kind |-> "none", caller |-> "none", filename |-> "none", n |-> 0,
     tmp_path |-> 0, file |-> 0, exit |-> "none", response |-> <<>>]

\* transcribe_batch when it is not running: transcribed notes, per file, whether
\* transcribe returned.
IdleBatch ==
    [pc |-> "idle", files |-> <<>>, i |-> 0, results |-> <<>>, transcribed |-> <<>>]

\* No concurrent pipeline call, no session, no request.
ConcIdle == heap = <<>> /\ calls = <<>>
SessionIdle == session = [prev |-> <<>>, n |-> 0]
ServerIdle ==
    /\ fs = {}
    /\ handler = IdleHandler
    /\ batch = IdleBatch

Init ==
    /\ EngineIdle
    /\ ConcIdle
    /\ SessionIdle
    /\ ServerIdle

BlendEmotions ==
    /\ fn = "none"
    /\ UNCHANGED <<concVars, session, serverVars>>
    /\ \E logits \in Logits, alpha \in Alphas :
        /\ fn' = "blend_emotions"
        /\ args' = [logits |-> logits, alpha |-> alpha]
        /\ ret' = Returned(blend_emotions(logits, alpha))

SmoothBlend ==
    /\ fn = "none"
    /\ UNCHANGED <<concVars, session, serverVars>>
    /\ \E prev_blend \in PrevDists, new_blend \in Dists, smoothing \in Smoothings :
       \E ties \in SmoothTies(prev_blend, new_blend, smoothing, 3) :
        /\ fn' = "smooth_blend"
        /\ args' = [prev_blend |-> prev_blend, new_blend |-> new_blend, smoothing |-> smoothing]
        /\ ret' = Returned(smooth_blend(prev_blend, new_blend, smoothing, ties))

ComputeModulation ==
    /\ fn = "none"
    /\ UNCHANGED <<concVars, session, serverVars>>
    /\ \E blend \in MapperDists \cup MalformedBlends, ties \in Ties(4) :
        /\ fn' = "compute_modulation"
        /\ args' = [blend |-> blend]
        /\ ret' = IF HasKeys(blend) THEN Returned(compute_modulation(blend, ties))
                  ELSE Raised("KeyError")

ProcessEmotionLogits ==
    /\ fn = "none"
    /\ UNCHANGED <<concVars, session, serverVars>>
    /\ \E logits \in Logits, prev_blend \in {<<>>} \cup {<<d>> : d \in PrevDists} :
       \E ties \in IF prev_blend = <<>> THEN Ties(7)
                   ELSE SmoothTies(prev_blend[1], blend_emotions(logits, DefaultAlpha),
                                   DefaultSmoothing, 7) :
        /\ fn' = "process_emotion_logits"
        /\ args' = [logits |-> logits, prev_blend |-> prev_blend]
        /\ ret' = Returned(process_emotion_logits(logits, prev_blend, ties))

DetectEmotionBlend ==
    /\ fn = "none"
    /\ UNCHANGED <<concVars, session, serverVars>>
    /\ \E v \in Vectors :
        /\ fn' = "_detect_emotion_blend"
        /\ args' = [emotion_vector |-> v]
        /\ ret' = IF Unpacks(v) THEN Returned(detect_emotion_blend(v))
                  ELSE Raised("ValueError")

GenerateBlendedModulation ==
    /\ fn = "none"
    /\ UNCHANGED <<concVars, session, serverVars>>
    /\ \E v \in Vectors \cup {Vec(d) : d \in OffSumDists} \cup MalformedVectors,
          ties \in Ties(3) :
        /\ fn' = "_generate_blended_modulation"
        /\ args' = [emotion_vector |-> v]
        /\ ret' = IF Unpacks(v) THEN Returned(generate_blended_modulation(v, ties))
                  ELSE Raised("ValueError")

\* predict_emotion: emotion = EMOTIONS[argmax(probs)], then _generate_modulation
GenerateModulation ==
    /\ fn = "none"
    /\ UNCHANGED <<concVars, session, serverVars>>
    /\ \E d \in MapperDists, ties \in Ties(3) :
        /\ fn' = "_generate_modulation"
        /\ args' = [probs |-> Vec(d), emotion |-> EMOTIONS[ArgMax(Vec(d))]]
        /\ ret' = Returned(generate_modulation(Vec(d), EMOTIONS[ArgMax(Vec(d))], ties))

\* The caller takes the result; the engine keeps nothing.
Return ==
    /\ fn # "none"
    /\ fn' = "none"
    /\ args' = <<>>
    /\ ret' = Returned(<<>>)
    /\ UNCHANGED <<concVars, session, serverVars>>

Next ==
    \/ BlendEmotions
    \/ SmoothBlend
    \/ ComputeModulation
    \/ ProcessEmotionLogits
    \/ DetectEmotionBlend
    \/ GenerateBlendedModulation
    \/ GenerateModulation
    \/ Return

Spec == Init /\ [][Next]_vars

----------------------------------------------------------------------------
(* A caller that keeps the blend of each pipeline call and passes it to the  *)
(* next one as prev_blend.                                                   *)

\* Number of pipeline calls of a session.
MaxCalls == 5

\* Raw scores of a session: uniform, the documented [2.0, 0.5, 0.5], and mixed ones.
SessionLogits ==
    {<<0, 0, 0>>, <<20, 5, 5>>, <<0, 5, 20>>, <<5, 20, 0>>, <<20, 20, 0>>, <<5, 0, 5>>}

\* The tie directions of process_emotion_logits that decide its blend_vector.
BlendTies(logits, prev_blend) ==
    IF prev_blend = <<>> THEN {[i \in 1..7 |-> FALSE]}
    ELSE {[i \in 1..7 |-> i <= 3 /\ t[i]] :
             t \in SmoothTies(prev_blend[1], blend_emotions(logits, DefaultAlpha),
                              DefaultSmoothing, 3)}

SessionInit ==
    /\ EngineIdle
    /\ ConcIdle
    /\ SessionIdle
    /\ ServerIdle

\* One call of process_emotion_logits; the caller keeps result["blend_vector"].
SessionCall ==
    /\ session.n < MaxCalls
    /\ \E logits \in SessionLogits :
       \E ties \in BlendTies(logits, session.prev) :
          session' = [prev |-> <<process_emotion_logits(logits, session.prev, ties).blend_vector>>,
                      n |-> session.n + 1]
    /\ UNCHANGED <<engineVars, concVars, serverVars>>

\* The caller starts a new conversation: no previous blend.
SessionRestart ==
    /\ session.prev # <<>>
    /\ session' = [prev |-> <<>>, n |-> session.n]
    /\ UNCHANGED <<engineVars, concVars, serverVars>>

SessionNext ==
    \/ SessionCall
    \/ SessionRestart

SessionSpec == SessionInit /\ [][SessionNext]_vars

----------------------------------------------------------------------------
(* Concurrent calls of process_emotion_logits.  The callers' previous        *)
(* distributions are dict objects on the heap, passed by reference; two      *)
(* calls may be given the same object.  A call runs statement by statement.  *)

\* Number of calls in progress at once.
MaxConcurrent == 2

\* The dict objects the callers hold, and the values they may have.
HeapObjects == {1, 2}
HeapValues ==
    {[calm |-> Unit, guarded |-> 0, lit |-> 0], blend_emotions(<<0, 5, 20>>, DefaultAlpha)}

ConcLogits == {<<0, 0, 0>>, <<20, 5, 5>>}

IdleCall ==
    [pc |-> "idle", logits |-> <<>>, prev |-> 0, prev_value |-> <<>>,
     new_blend |-> <<>>, final_blend |-> <<>>, result |-> <<>>]

smooth_effect_mut_inplace(h, ref, smoothed) == [h EXCEPT ![ref] = smoothed]

\* What smooth_blend(prev_blend, ...) leaves on the heap h, prev_blend being the
\* object ref: it fills the new dict `smoothed` and only reads prev_blend.
smooth_effect(h, ref, smoothed) == h

ConcInit ==
    /\ EngineIdle
    /\ SessionIdle
    /\ ServerIdle
    /\ heap \in [HeapObjects -> HeapValues]
    /\ calls = [c \in 1..MaxConcurrent |-> IdleCall]

\* A caller calls process_emotion_logits(logits, prev_blend), prev_blend being
\* None (0) or one of its objects; prev_value notes the object's values then.
ConcCall(c) ==
    /\ calls[c].pc = "idle"
    /\ \E logits \in ConcLogits, prev \in {0} \cup HeapObjects :
          calls' = [calls EXCEPT ![c] =
                      [IdleCall EXCEPT !.pc = "called", !.logits = logits, !.prev = prev,
                          !.prev_value = IF prev = 0 THEN <<>> ELSE <<heap[prev]>>]]
    /\ UNCHANGED <<heap, engineVars, session, serverVars>>

\* new_blend = blend_emotions(logits)
ConcNormalize(c) ==
    /\ calls[c].pc = "called"
    /\ calls' = [calls EXCEPT ![c].pc = "normalized",
                              ![c].new_blend = blend_emotions(calls[c].logits, DefaultAlpha)]
    /\ UNCHANGED <<heap, engineVars, session, serverVars>>

\* final_blend = smooth_blend(prev_blend, new_blend) if prev_blend else new_blend
ConcSmooth(c) ==
    /\ calls[c].pc = "normalized"
    /\ IF calls[c].prev = 0
       THEN /\ calls' = [calls EXCEPT ![c].pc = "smoothed",
                                      ![c].final_blend = calls[c].new_blend]
            /\ heap' = heap
       ELSE \E ties \in SmoothTies(heap[calls[c].prev], calls[c].new_blend,
                                    DefaultSmoothing, 3) :
               LET smoothed == smooth_blend(heap[calls[c].prev], calls[c].new_blend,
                                            DefaultSmoothing, ties)
               IN  /\ calls' = [calls EXCEPT ![c].pc = "smoothed",
                                             ![c].final_blend = smoothed]
                   /\ heap' = smooth_effect(heap, calls[c].prev, smoothed)
    /\ UNCHANGED <<engineVars, session, serverVars>>

\* modulation = compute_modulation(final_blend); return
ConcModulate(c) ==
    /\ calls[c].pc = "smoothed"
    /\ \E ties \in Ties(4) :
          calls' = [calls EXCEPT ![c].pc = "returned",
                       ![c].result =
                           [blend_vector |-> calls[c].final_blend,
                            modulation |-> compute_modulation(calls[c].final_blend, ties)]]
    /\ UNCHANGED <<heap, engineVars, session, serverVars>>

\* The caller takes the result.
ConcTake(c) ==
    /\ calls[c].pc = "returned"
    /\ calls' = [calls EXCEPT ![c] = IdleCall]
    /\ UNCHANGED <<heap, engineVars, session, serverVars>>

ConcNext ==
    \E c \in 1..MaxConcurrent :
        \/ ConcCall(c)
        \/ ConcNormalize(c)
        \/ ConcSmooth(c)
        \/ ConcModulate(c)
        \/ ConcTake(c)

ConcSpec == ConcInit /\ [][ConcNext]_vars

----------------------------------------------------------------------------
(* Request handlers that write the upload to a temporary file: transcribe    *)
(* and transcribe_batch of server.py, predict_emotion and                    *)
(* predict_emotion_blended of inference.py.  Reading the upload, writing the *)
(* file and running the models may each fail.                                *)

\* Requests received, and files of one batch.
MaxRequests == 3
MaxFiles == 2

Filenames == {"a.m4a", "b.m4a"}
PredictKinds == {"predict_emotion", "predict_emotion_blended"}
HandlerKinds == {"transcribe"} \cup PredictKinds

JSONResponse(content) == [type |-> "JSONResponse", content |-> content]
Dict(content) == [type |-> "dict", content |-> content]
HTTPException(status) == [type |-> "HTTPException", status |-> status]
OSError == [type |-> "OSError"]

\* A handler is called on an upload; the temporary file it will create is new.
Called(kind, caller, filename) ==
    [IdleHandler EXCEPT !.pc = "start", !.kind = kind, !.caller = caller,
                        !.filename = filename, !.n = handler.n + 1]

Finished == [handler EXCEPT !.pc = IF handler.exit = "return" THEN "returned" ELSE "raised"]
Raise(e) == [handler EXCEPT !.pc = "raised", !.exit = "raise", !.response = e]

ServerInit == EngineIdle /\ ConcIdle /\ SessionIdle /\ ServerIdle

\* An HTTP request to /transcribe or to one of the emotion endpoints.
Request ==
    /\ handler.pc = "idle"
    /\ batch.pc = "idle"
    /\ handler.n < MaxRequests
    /\ \E kind \in HandlerKinds, filename \in Filenames :
          handler' = Called(kind, "http", filename)
    /\ UNCHANGED <<fs, batch, engineVars, concVars, session>>

\* transcribe: if not model: raise HTTPException(503)
TranscribeCheckModel ==
    /\ handler.pc = "start" /\ handler.kind = "transcribe"
    /\ \E loaded \in BOOLEAN :
          handler' = IF loaded THEN [handler EXCEPT !.pc = "read"]
                     ELSE Raise(HTTPException(503))
    /\ UNCHANGED <<fs, batch, engineVars, concVars, session>>

\* transcribe: chunk = await audio.read(MAX_FILE_SIZE + 1), and the size check
TranscribeRead ==
    /\ handler.pc = "read" /\ handler.kind = "transcribe"
    /\ \E outcome \in {"ok", "too_large", "fails"} :
          handler' = CASE outcome = "ok" -> [handler EXCEPT !.pc = "create"]
                       [] outcome = "too_large" -> Raise(HTTPException(413))
                       [] OTHER -> Raise(OSError)
    /\ UNCHANGED <<fs, batch, engineVars, concVars, session>>

\* transcribe: temp_path = None; try: with NamedTemporaryFile(delete=False) ...
TranscribeCreate ==
    /\ handler.pc = "create" /\ handler.kind = "transcribe"
    /\ handler' = [handler EXCEPT !.pc = "write", !.tmp_path = 0, !.file = handler.n]
    /\ fs' = fs \cup {handler.n}
    /\ UNCHANGED <<batch, engineVars, concVars, session>>

\* transcribe: temp_file.write(chunk); temp_path = temp_file.name
TranscribeWrite ==
    /\ handler.pc = "write" /\ handler.kind = "transcribe"
    /\ \E ok \in BOOLEAN :
          handler' = IF ok THEN [handler EXCEPT !.pc = "inference", !.tmp_path = handler.file]
                     ELSE [handler EXCEPT !.pc = "except"]
    /\ UNCHANGED <<fs, batch, engineVars, concVars, session>>

\* transcribe: result = model.transcribe(temp_path, ...); return JSONResponse(...)
TranscribeInference ==
    /\ handler.pc = "inference" /\ handler.kind = "transcribe"
    /\ \E ok \in BOOLEAN :
          handler' = IF ok
                     THEN [handler EXCEPT !.pc = "finally", !.exit = "return",
                              !.response = JSONResponse([transcript |-> <<"text", handler.filename>>])]
                     ELSE [handler EXCEPT !.pc = "except"]
    /\ UNCHANGED <<fs, batch, engineVars, concVars, session>>

\* transcribe: except Exception as e: raise HTTPException(500)
TranscribeExcept ==
    /\ handler.pc = "except" /\ handler.kind = "transcribe"
    /\ handler' = [handler EXCEPT !.pc = "finally", !.exit = "raise",
                                  !.response = HTTPException(500)]
    /\ UNCHANGED <<fs, batch, engineVars, concVars, session>>

\* transcribe: finally: if temp_path and os.path.exists(temp_path): os.unlink(temp_path)
TranscribeFinally ==
    /\ handler.pc = "finally" /\ handler.kind = "transcribe"
    /\ fs' = IF handler.tmp_path # 0 /\ handler.tmp_path \in fs
             THEN fs \ {handler.tmp_path} ELSE fs
    /\ handler' = Finished
    /\ UNCHANGED <<batch, engineVars, concVars, session>>

\* predict_emotion[_blended]: with tempfile.NamedTemporaryFile(delete=False, ...) as tmp
PredictCreate ==
    /\ handler.pc = "start" /\ handler.kind \in PredictKinds
    /\ handler' = [handler EXCEPT !.pc = "read", !.file = handler.n]
    /\ fs' = fs \cup {handler.n}
    /\ UNCHANGED <<batch, engineVars, concVars, session>>

\* predict_emotion[_blended]: content = await audio.read(), inside the with, before the try
PredictRead ==
    /\ handler.pc = "read" /\ handler.kind \in PredictKinds
    /\ \E ok \in BOOLEAN :
          handler' = IF ok THEN [handler EXCEPT !.pc = "write"] ELSE Raise(OSError)
    /\ UNCHANGED <<fs, batch, engineVars, concVars, session>>

\* predict_emotion[_blended]: tmp.write(content); tmp_path = tmp.name
PredictWrite ==
    /\ handler.pc = "write" /\ handler.kind \in PredictKinds
    /\ \E ok \in BOOLEAN :
          handler' = IF ok THEN [handler EXCEPT !.pc = "inference", !.tmp_path = handler.file]
                     ELSE Raise(OSError)
    /\ UNCHANGED <<fs, batch, engineVars, concVars, session>>

\* predict_emotion[_blended]: try: ... return {...}
PredictInference ==
    /\ handler.pc = "inference" /\ handler.kind \in PredictKinds
    /\ \E ok \in BOOLEAN :
          handler' = IF ok
                     THEN [handler EXCEPT !.pc = "finally", !.exit = "return",
                              !.response = Dict([emotion |-> "calm"])]
                     ELSE [handler EXCEPT !.pc = "finally", !.exit = "raise",
                              !.response = [type |-> "RuntimeError"]]
    /\ UNCHANGED <<fs, batch, engineVars, concVars, session>>

\* predict_emotion[_blended]: finally: if os.path.exists(tmp_path): os.remove(tmp_path)
PredictFinally ==
    /\ handler.pc = "finally" /\ handler.kind \in PredictKinds
    /\ fs' = IF handler.tmp_path \in fs THEN fs \ {handler.tmp_path} ELSE fs
    /\ handler' = Finished
    /\ UNCHANGED <<batch, engineVars, concVars, session>>

\* The HTTP layer sends what the handler returned or raised.
Respond ==
    /\ handler.pc \in {"returned", "raised"}
    /\ handler.caller = "http"
    /\ handler' = [IdleHandler EXCEPT !.n = handler.n]
    /\ UNCHANGED <<fs, batch, engineVars, concVars, session>>

\* result["transcript"]: only a dict can be subscripted.
Subscriptable(result) == result.type = "dict"

\* The entry transcribe_batch appends for one file, transcribe having returned
\* result (outcome "returned") or raised it.
batch_entry(filename, outcome, result) ==
    IF outcome = "returned" /\ Subscriptable(result)
    THEN [filename |-> filename, transcript |-> result.content.transcript, status |-> "success"]
    ELSE [filename |-> filename,
          error |-> IF outcome = "returned" THEN "TypeError" ELSE result.type,
          status |-> "error"]

RECURSIVE SeqsUpTo(_, _)
SeqsUpTo(S, n) ==
    IF n = 0 THEN {<<>>}
    ELSE SeqsUpTo(S, n - 1) \cup
         {Append(q, x) : q \in {r \in SeqsUpTo(S, n - 1) : Len(r) = n - 1}, x \in S}

\* An HTTP request to /transcribe/batch: results = []
BatchRequest ==
    /\ batch.pc = "idle"
    /\ handler.pc = "idle"
    /\ \E files \in SeqsUpTo(Filenames, MaxFiles) \ {<<>>} :
          /\ handler.n + Len(files) <= MaxRequests
          /\ batch' = [IdleBatch EXCEPT !.pc = "loop", !.files = files, !.i = 1]
    /\ UNCHANGED <<fs, handler, engineVars, concVars, session>>

\* for audio in files: try: result = await transcribe(audio)
BatchCall ==
    /\ batch.pc = "loop"
    /\ batch.i <= Len(batch.files)
    /\ handler' = Called("transcribe", "batch", batch.files[batch.i])
    /\ batch' = [batch EXCEPT !.pc = "await"]
    /\ UNCHANGED <<fs, engineVars, concVars, session>>

\* results.append({... "status": "success"}), or in except Exception:
\* results.append({... "status": "error"})
BatchAppend ==
    /\ batch.pc = "await"
    /\ handler.pc \in {"returned", "raised"}
    /\ batch' = [batch EXCEPT
                    !.pc = "loop", !.i = batch.i + 1,
                    !.results = Append(batch.results,
                                       batch_entry(handler.filename, handler.pc, handler.response)),
                    !.transcribed = Append(batch.transcribed, handler.pc = "returned")]
    /\ handler' = [IdleHandler EXCEPT !.n = handler.n]
    /\ UNCHANGED <<fs, engineVars, concVars, session>>

\* return {"results": results}
BatchReturn ==
    /\ batch.pc = "loop"
    /\ batch.i > Len(batch.files)
    /\ batch' = [batch EXCEPT !.pc = "returned"]
    /\ UNCHANGED <<fs, handler, engineVars, concVars, session>>

\* The HTTP layer sends the batch's results.
BatchRespond ==
    /\ batch.pc = "returned"
    /\ batch' = IdleBatch
    /\ UNCHANGED <<fs, handler, engineVars, concVars, session>>

ServerNext ==
    \/ Request
    \/ TranscribeCheckModel
    \/ TranscribeRead
    \/ TranscribeCreate
    \/ TranscribeWrite
    \/ TranscribeInference
    \/ TranscribeExcept
    \/ TranscribeFinally
    \/ PredictCreate
    \/ PredictRead
    \/ PredictWrite
    \/ PredictInference
    \/ PredictFinally
    \/ Respond
    \/ BatchRequest
    \/ BatchCall
    \/ BatchAppend
    \/ BatchReturn
    \/ BatchRespond

ServerSpec == ServerInit /\ [][ServerNext]_vars

----------------------------------------------------------------------------
(* Properties *)

\* A valid distribution: three keys, each value in [0, 1], the sum 1 within 1e-6.
Tolerance == Unit \div 1000000
Sum3(blend) == blend.calm + blend.guarded + blend.lit
InRange(v) == 0 <= v /\ v <= Unit
IsValid(blend) ==
    /\ DOMAIN blend = {"calm", "guarded", "lit"}
    /\ InRange(blend.calm) /\ InRange(blend.guarded) /\ InRange(blend.lit)
    /\ Abs(Sum3(blend) - Unit) <= Tolerance
AsBlend(v) == [calm |-> v[1], guarded |-> v[2], lit |-> v[3]]

Threshold3 == (3 * Unit) \div 10
Threshold6 == (6 * Unit) \div 10

\* C1: _detect_emotion_blend returns the label of the first matching rule in
\* the order calm&lit, guarded&lit, calm&guarded (each above 0.3), calm, guarded,
\* lit (above 0.6), else "neutral blend"; {0.35, 0.1, 0.4} gives "hopeful calm".
C1_FirstMatch ==
    (fn = "_detect_emotion_blend" /\ ret.raised = "none") =>
        LET calm == args.emotion_vector[1]
            guarded == args.emotion_vector[2]
            lit == args.emotion_vector[3]
            r1 == calm > Threshold3 /\ lit > Threshold3
            r2 == guarded > Threshold3 /\ lit > Threshold3
            r3 == calm > Threshold3 /\ guarded > Threshold3
            r4 == calm > Threshold6
            r5 == guarded > Threshold6
            r6 == lit > Threshold6
        IN  /\ r1 => ret.value = "hopeful calm"
            /\ (~r1 /\ r2) => ret.value = "guarded optimism"
            /\ (~r1 /\ ~r2 /\ r3) => ret.value = "resolute peace"
            /\ (~r1 /\ ~r2 /\ ~r3 /\ r4) => ret.value = "pure calm"
            /\ (~r1 /\ ~r2 /\ ~r3 /\ ~r4 /\ r5) => ret.value = "pure guarded"
            /\ (~r1 /\ ~r2 /\ ~r3 /\ ~r4 /\ ~r5 /\ r6) => ret.value = "pure lit"
            /\ (~r1 /\ ~r2 /\ ~r3 /\ ~r4 /\ ~r5 /\ ~r6) => ret.value = "neutral blend"
            /\ args.emotion_vector = ScenarioVector => ret.value = "hopeful calm"

\* C1 witness: all three pair rules match at once and the first one wins.
C1_Witness ==
    /\ fn = "_detect_emotion_blend"
    /\ \A i \in 1..3 : args.emotion_vector[i] > Threshold3
    /\ ret.value = "hopeful calm"

\* The distribution the normalizer returns for raw scores [0.0, 0.0, 0.0].
UniformVector == Vec(blend_emotions(<<0, 0, 0>>, DefaultAlpha))

\* C2 as stated: the uniform distribution of raw scores [0, 0, 0] is classified
\* "neutral blend".
C2_UniformNeutral ==
    (fn = "_detect_emotion_blend" /\ args.emotion_vector = UniformVector) =>
        ret.value = "neutral blend"

\* C2 amended: each category of the uniform distribution is 0.333 to three
\* decimals, above the 0.3 of the pair rules, and the classifier returns
\* "hopeful calm".
C2_UniformHopefulCalm ==
    (fn = "_detect_emotion_blend" /\ args.emotion_vector = UniformVector) =>
        /\ \A i \in 1..3 : Abs(args.emotion_vector[i] - 333 * Milli) < Milli
        /\ ret.value = "hopeful calm"

\* C2 witness: the classifier has been called on the uniform distribution.
C2_Witness ==
    /\ fn = "_detect_emotion_blend"
    /\ args.emotion_vector = UniformVector
    /\ ret.raised = "none"

Keys == {"calm", "guarded", "lit"}

\* C3 as stated: retention 0 returns cur exactly, retention 1 returns prev exactly.
C3_EndsExact ==
    fn = "smooth_blend" =>
        /\ args.smoothing = 0 => ret.value = args.new_blend
        /\ args.smoothing = 10 => ret.value = args.prev_blend

\* v is the value w rounded to 3 decimals: a multiple of 0.001 within 0.0005.
IsRounded3(v, w) == v % Milli = 0 /\ 2 * Abs(v - w) <= Milli

\* C3 amended: retention 0 returns cur rounded to 3 decimals in every category,
\* retention 1 returns prev rounded to 3 decimals in every category.
C3_EndsRounded ==
    fn = "smooth_blend" =>
        /\ args.smoothing = 0 =>
              \A k \in Keys : IsRounded3(ret.value[k], args.new_blend[k])
        /\ args.smoothing = 10 =>
              \A k \in Keys : IsRounded3(ret.value[k], args.prev_blend[k])

\* C3 witness: retention 0 on distinct distributions, the result is not cur itself.
C3_Witness ==
    /\ fn = "smooth_blend"
    /\ args.smoothing = 0
    /\ args.prev_blend # args.new_blend
    /\ ret.value # args.new_blend

SmoothCase ==
    /\ fn = "smooth_blend"
    /\ 0 <= args.smoothing /\ args.smoothing <= 10
    /\ IsValid(args.prev_blend) /\ IsValid(args.new_blend)

\* C4 as stated: for retention in [0, 1] and inputs that sum to 1 within 1e-6,
\* the smoothed values sum to 1 within 1e-6.
C4_SumWithinTolerance ==
    SmoothCase => Abs(Sum3(ret.value) - Unit) <= Tolerance

\* C4 amended: the smoothed values, each rounded to 3 decimals and not
\* renormalized, sum to 1 within 0.001.
C4_SumWithinMilli ==
    SmoothCase => Abs(Sum3(ret.value) - Unit) <= Milli

\* C4 witness: a smoothed distribution whose sum is not 1.
C4_Witness ==
    SmoothCase /\ args.smoothing = DefaultSmoothing /\ Sum3(ret.value) # Unit

\* C5 as stated: smooth_blend with a retention below 0 or above 1 fails with
\* InvalidParameter and returns no distribution.
C5_RetentionRejected ==
    (fn = "smooth_blend" /\ (args.smoothing < 0 \/ args.smoothing > 10)) =>
        ret.raised = "InvalidParameter"

\* C6 as stated: blend_emotions with a sharpness of 0 or below fails with
\* InvalidParameter instead of returning a distribution.
C6_SharpnessRejected ==
    (fn = "blend_emotions" /\ args.alpha <= 0) => ret.raised = "InvalidParameter"

\* C7: for every raw score triple and every sharpness > 0, each component of
\* the distribution blend_emotions returns is in [0, 1] and the three sum to 1
\* within 1e-6.
C7_NormalizeIsDistribution ==
    (fn = "blend_emotions" /\ args.alpha > 0) =>
        /\ ret.raised = "none"
        /\ \A k \in Keys : InRange(ret.value[k])
        /\ Abs(Sum3(ret.value) - Unit) <= Tolerance

\* C7 witness: the scenario [2.0, 0.5, 0.5] at sharpness 0.7, weighted toward calm.
C7_Witness ==
    /\ fn = "blend_emotions"
    /\ args.logits = <<20, 5, 5>> /\ args.alpha = DefaultAlpha
    /\ ret.value.calm > Threshold6
    /\ ret.value.guarded > 0

\* C8: process_emotion_logits returns the normalized blend unchanged when no
\* previous distribution is given, the normalized blend smoothed against the
\* previous one at the default retention when one is given, and in both cases
\* the modulation of the blend it returns.
C8_SmoothIffPrevious ==
    fn = "process_emotion_logits" =>
        LET new_blend == blend_emotions(args.logits, DefaultAlpha)
        IN  /\ args.prev_blend = <<>> => ret.value.blend_vector = new_blend
            /\ args.prev_blend # <<>> =>
                  \E t \in Ties(3) :
                      ret.value.blend_vector =
                          smooth_blend(args.prev_blend[1], new_blend, DefaultSmoothing, t)
            /\ \E t \in Ties(4) :
                  ret.value.modulation = compute_modulation(ret.value.blend_vector, t)

\* C8 witness: a previous distribution was given and smoothing changed the blend.
C8_Witness ==
    /\ fn = "process_emotion_logits"
    /\ args.prev_blend # <<>>
    /\ ret.value.blend_vector # blend_emotions(args.logits, DefaultAlpha)
    /\ ret.value.blend_vector # args.prev_blend[1]

\* A malformed distribution: the wrong number of categories, or a value
\* outside [0, 1].
MalformedBlend(blend) ==
    \/ DOMAIN blend # Keys
    \/ \E k \in Keys : ~InRange(blend[k])
MalformedVector(v) ==
    \/ Len(v) # 3
    \/ \E i \in 1..3 : ~InRange(v[i])

\* C9 as stated: a modulation mapper given a malformed distribution fails
\* (with InvalidDistribution; any error raised is counted as that failure)
\* and returns no modulation.
C9_MalformedRejected ==
    /\ (fn = "compute_modulation" /\ MalformedBlend(args.blend)) => ret.raised # "none"
    /\ (fn = "_generate_blended_modulation" /\ MalformedVector(args.emotion_vector)) =>
           ret.raised # "none"

PureCalm == [calm |-> Unit, guarded |-> 0, lit |-> 0]
PureGuarded == [calm |-> 0, guarded |-> Unit, lit |-> 0]
NoTies == [i \in 1..4 |-> FALSE]

\* A call of a modulation mapper on a valid distribution.
MapperCase ==
    \/ fn = "compute_modulation" /\ IsValid(args.blend)
    \/ fn = "_generate_blended_modulation" /\ Len(args.emotion_vector) = 3
          /\ IsValid(AsBlend(args.emotion_vector))

\* What the mapper that was called returns for the blend b.
SameMapper(b) ==
    IF fn = "compute_modulation" THEN compute_modulation(b, NoTies)
    ELSE generate_blended_modulation(Vec(b), NoTies)

\* C10 as stated: for {calm: 1, guarded: 0, lit: 0} the pitch shift is negative
\* and no valid distribution has a lower one, no valid distribution has a lower
\* glow intensity, and the easing curve is "sine".
C10_PureCalmExtremes ==
    MapperCase =>
        LET calm == SameMapper(PureCalm)
        IN  /\ calm.tts_pitch_shift < 0
            /\ calm.tts_pitch_shift <= ret.value.tts_pitch_shift
            /\ calm.glow_intensity <= ret.value.glow_intensity
            /\ calm.glow_easing_curve = "sine"

\* C10 amended: for {calm: 1, guarded: 0, lit: 0} the pitch shift is negative
\* and no valid distribution has a lower one, the easing curve is "sine", and
\* the glow intensity is 0.4, which is not the lowest: the lowest over all valid
\* distributions is the 0.25 of {calm: 0, guarded: 1, lit: 0}.
C10_PureCalmPitchOnly ==
    MapperCase =>
        LET calm == SameMapper(PureCalm)
            guarded == SameMapper(PureGuarded)
        IN  /\ calm.tts_pitch_shift < 0
            /\ calm.tts_pitch_shift <= ret.value.tts_pitch_shift
            /\ calm.glow_easing_curve = "sine"
            /\ calm.glow_intensity = 40
            /\ guarded.glow_intensity = 25
            /\ guarded.glow_intensity <= ret.value.glow_intensity
            /\ ((fn = "compute_modulation" /\ args.blend = PureCalm)
                   \/ (fn = "_generate_blended_modulation"
                         /\ args.emotion_vector = Vec(PureCalm)))
                 => ret.value = calm

\* C10 witness: a mapper was called on {calm: 1, guarded: 0, lit: 0}.
C10_Witness ==
    /\ fn = "compute_modulation"
    /\ args.blend = PureCalm
    /\ ret.value.tts_pitch_shift = 0 - 80
    /\ ret.value.glow_easing_curve = "sine"

PureLit == [calm |-> 0, guarded |-> 0, lit |-> Unit]

\* C11: for {calm: 0, guarded: 0, lit: 1} the pitch shift is positive and no
\* valid distribution has a higher one, no valid distribution has a higher glow
\* intensity, and the easing curve is "cubic".
C11_PureLitExtremes ==
    MapperCase =>
        LET lit == SameMapper(PureLit)
        IN  /\ lit.tts_pitch_shift > 0
            /\ lit.tts_pitch_shift >= ret.value.tts_pitch_shift
            /\ lit.glow_intensity >= ret.value.glow_intensity
            /\ lit.glow_easing_curve = "cubic"
            /\ ((fn = "compute_modulation" /\ args.blend = PureLit)
                   \/ (fn = "_generate_blended_modulation"
                         /\ args.emotion_vector = Vec(PureLit)))
                 => ret.value = lit

\* C11 witness: the blended mapper was called on {calm: 0, guarded: 0, lit: 1}.
C11_Witness ==
    /\ fn = "_generate_blended_modulation"
    /\ args.emotion_vector = Vec(PureLit)
    /\ ret.value.tts_pitch_shift = 80
    /\ ret.value.glow_intensity = 90
    /\ ret.value.glow_easing_curve = "cubic"

\* The distribution a modulation mapper was called on, in any of the three
\* call paths.
CalledOn ==
    IF fn = "compute_modulation" THEN args.blend
    ELSE IF fn = "_generate_blended_modulation" THEN AsBlend(args.emotion_vector)
    ELSE AsBlend(args.probs)

\* A call of one of the three modulation mappers that returned.
AnyMapperCall ==
    /\ fn \in {"compute_modulation", "_generate_blended_modulation", "_generate_modulation"}
    /\ ret.raised = "none"

\* C12 as stated: in every modulation call path the pitch shift of a valid
\* distribution is (lit - calm) * 0.08 rounded to 3 decimals, whatever guarded is.
C12_PitchIsLitMinusCalm ==
    (AnyMapperCall /\ IsValid(CalledOn)) =>
        \E up \in BOOLEAN :
            ret.value.tts_pitch_shift =
                RoundDiv(8 * (CalledOn.lit - CalledOn.calm), 100 * Milli, up)

\* Components in [0, 1] and a sum within 0.002 of 1.
NearValid(blend) ==
    /\ DOMAIN blend = Keys
    /\ \A k \in Keys : InRange(blend[k])
    /\ Abs(Sum3(blend) - Unit) <= 2 * Milli + Tolerance

\* C13: for components in [0, 1] that sum to 1, smoothed outputs off by up to
\* 0.002 included, every modulation mapper returns a glow intensity in [0, 1];
\* so does the pipeline for the blend it returns.
C13_GlowInUnitInterval ==
    /\ (AnyMapperCall /\ NearValid(CalledOn)) =>
           (0 <= ret.value.glow_intensity /\ ret.value.glow_intensity <= 100)
    /\ fn = "process_emotion_logits" =>
           /\ NearValid(ret.value.blend_vector)
           /\ 0 <= ret.value.modulation.glow_intensity
           /\ ret.value.modulation.glow_intensity <= 100

\* C13 witness: a mapper was called on a smoothed distribution whose sum is
\* above 1 and that is all but pure lit.
C13_Witness ==
    /\ fn = "compute_modulation"
    /\ NearValid(args.blend)
    /\ Sum3(args.blend) = Unit + 2 * Milli
    /\ args.blend.lit = Unit
    /\ ret.value.glow_intensity = 90

\* C17 as stated: compute_modulation and _generate_blended_modulation select
\* the same easing curve for every valid distribution.
C17_SameEasingCurve ==
    /\ (fn = "compute_modulation" /\ IsValid(args.blend)) =>
           ret.value.glow_easing_curve =
               blended_easing_curve(args.blend.calm, args.blend.guarded)
    /\ (fn = "_generate_blended_modulation" /\ Len(args.emotion_vector) = 3
           /\ IsValid(AsBlend(args.emotion_vector))) =>
           ret.value.glow_easing_curve =
               easing_curve(args.emotion_vector[1], args.emotion_vector[2])

\* C18: in a session in which each call gets the previous call's blend_vector,
\* the sum of the returned blend_vector is within 0.003 of 1 at every step.
C18_SessionSumBounded ==
    session.prev # <<>> => Abs(Sum3(session.prev[1]) - Unit) <= 3 * Milli

\* C18 witness: after at least three chained calls the blend does not sum to 1.
C18_Witness ==
    /\ session.n >= 3
    /\ session.prev # <<>>
    /\ Sum3(session.prev[1]) # Unit
    /\ session.prev[1].calm % Milli = 0

\* C14: a pipeline call leaves the caller's previous distribution with the
\* three values it had at the call, whatever other calls run meanwhile, and
\* returns what the same call returns when it runs alone on those values.
C14_PreviousUntouched ==
    \A c \in DOMAIN calls :
        /\ (calls[c].pc # "idle" /\ calls[c].prev # 0) =>
               heap[calls[c].prev] = calls[c].prev_value[1]
        /\ calls[c].pc = "returned" =>
               /\ \E t \in BlendTies(calls[c].logits, calls[c].prev_value) :
                      calls[c].result.blend_vector =
                          process_emotion_logits(calls[c].logits, calls[c].prev_value,
                                                 t).blend_vector
               /\ \E t \in Ties(4) :
                      calls[c].result.modulation =
                          compute_modulation(calls[c].result.blend_vector, t)

\* C14 witness: two calls on the same previous distribution, with different raw
\* scores, have both returned.
C14_Witness ==
    /\ calls # <<>>
    /\ calls[1].pc = "returned" /\ calls[2].pc = "returned"
    /\ calls[1].prev # 0 /\ calls[1].prev = calls[2].prev
    /\ calls[1].logits # calls[2].logits
    /\ calls[1].result.blend_vector # calls[2].result.blend_vector

\* C15: when a handler that created a temporary file returns or raises, the
\* file no longer exists.
C15_TempFileRemoved ==
    (handler.pc \in {"returned", "raised"} /\ handler.file # 0) => handler.file \notin fs

\* C16: transcribe_batch returns one entry per file in upload order; a file
\* that transcribe transcribed has status "success" and its transcript, a
\* file on which transcribe raised has status "error".
C16_BatchEntries ==
    batch.pc = "returned" =>
        /\ Len(batch.results) = Len(batch.files)
        /\ \A i \in 1..Len(batch.files) :
              /\ batch.results[i].filename = batch.files[i]
              /\ IF batch.transcribed[i]
                 THEN /\ batch.results[i].status = "success"
                      /\ batch.results[i].transcript = <<"text", batch.files[i]>>
                 ELSE batch.results[i].status = "error"

====
